---- MODULE Spec2Model ----
(***************************************************************************)
(* A model of milesbarr/translator: the language-tag utilities, the text   *)
(* translator with its cache, the HTML translatability walk, the three     *)
(* format translators and the directory dispatcher.                        *)
(*                                                                         *)
(* Python strings are modelled as sequences of one-character strings, so   *)
(* that stripping, splitting, case conversion and concatenation are        *)
(* computed and not assumed.                                               *)
(***************************************************************************)
EXTENDS Integers, Sequences, FiniteSets, TLC

VARIABLES
    mode,        \* which entry point of the package this behaviour exercises
    pc,          \* position inside the running function
    tag,         \* normalize_language_tag: the argument
    normalized,  \* normalize_language_tag: the values returned so far
    text,        \* translate_text: the text argument
    src,         \* source language tag argument
    tgt,         \* target language tag argument
    cache,       \* the MutableMapping handed to the translators
    result,      \* translate_text: the returned string
    cache0,      \* translate_text: the cache as it was when the running call began
    calls,       \* provider invocations made by the running translate_text call
    log,         \* events of the running translate_text call, in order
    prev,        \* record of the translate_text call completed before this one
    soup,        \* the parsed HTML tree (BeautifulSoup object and its nodes)
    checked,     \* _is_element_translatable: the element argument
    verdict,     \* _is_element_translatable: the returned bool
    doc,         \* the RSS element tree or the manifest's parsed JSON, as mutated so far
    doc0,        \* the document of the running format translator as it was parsed
    idx,         \* loop position of the running format translator
    error,       \* exception raised by the running function, "" if none
    sent,        \* texts handed to translate_text by the format translator
    files,       \* translate_directory: the files below input_dir, as paths
    exclude_paths, \* translate_directory: the exclude_paths argument
    walk,        \* translate_directory: directories os.walk still has to yield
    root,        \* translate_directory: the directory os.walk yielded last
    pending,     \* translate_directory: files of root not looked at yet
    handed,      \* translate_directory: (input, output) pairs given to translate_file
    written      \* translate_file: output path |-> input file whose translation it holds

vars == <<mode, pc, tag, normalized, text, src, tgt, cache, cache0, result, calls, log,
          prev, soup, checked, verdict, doc, doc0, idx, error, sent, files, exclude_paths, walk, root,
          pending, handed, written>>

tagVars  == <<tag, normalized>>
textVars == <<text, cache0, result, calls, log, prev>>
langVars == <<src, tgt, cache>>
htmlVars == <<soup, checked, verdict>>
docVars  == <<doc, doc0, idx, error, sent>>
dirVars  == <<files, exclude_paths, walk, root, pending, handed, written>>

-----------------------------------------------------------------------------
(* Bounds of the model *)

MaxTagLen == 4

\* how many times in a row normalize_language_tag is applied
MaxApply == 2

MaxTextLen == 3

\* how many translate_text calls follow each other on one cache
MaxCalls == 2

\* nodes below the document node of an HTML document given to translate_html
MaxDocNodes == 2

\* <item> elements of a feed given to translate_rss_feed
MaxItems == 1

\* entries of the shortcuts array of a manifest given to translate_web_app_manifest
MaxShortcuts == 1

\* directories between input_dir and a file given to translate_directory
MaxDepth == 1

\* files below input_dir
MaxFiles == 2

\* elements between the document node and the element given to
\* _is_element_translatable, that element included
MaxTreeNodes == 3

\* All sequences over S of length at most n.
SeqsUpTo(S, n) == UNION {[1..k -> S] : k \in 0..n}

-----------------------------------------------------------------------------
(* Characters *)

LowerLetters == <<"e", "n", "s", "u">>
UpperLetters == <<"E", "N", "S", "U">>

IndexOf(c, letters) == CHOOSE i \in 1..Len(letters) : letters[i] = c

IsIn(c, letters) == \E i \in 1..Len(letters) : letters[i] = c

\* one character of str.lower()
LowerChar(c) == IF IsIn(c, UpperLetters) THEN LowerLetters[IndexOf(c, UpperLetters)] ELSE c

\* one character of str.upper()
UpperChar(c) == IF IsIn(c, LowerLetters) THEN UpperLetters[IndexOf(c, LowerLetters)] ELSE c

Lower(s) == [i \in 1..Len(s) |-> LowerChar(s[i])]

Upper(s) == [i \in 1..Len(s) |-> UpperChar(s[i])]

\* str.replace(old, new) for one-character old and new
Replace(s, old, new) == [i \in 1..Len(s) |-> IF s[i] = old THEN new ELSE s[i]]

\* str.replace(old, new, 1): only the first occurrence
ReplaceFirst(s, old, new) ==
    IF \E i \in 1..Len(s) : s[i] = old
    THEN LET f == CHOOSE i \in 1..Len(s) : s[i] = old /\ \A j \in 1..(i-1) : s[j] # old
         IN  [i \in 1..Len(s) |-> IF i = f THEN new ELSE s[i]]
    ELSE s

-----------------------------------------------------------------------------
(* _utils.py: language tags *)

\* split_language_tag that splits on "-" alone, "_" left as it is
SplitLanguageTagHyphenOnly(language_tag) ==
    LET t == language_tag
    IN  IF \E i \in 1..Len(t) : t[i] = "-"
        THEN LET f == CHOOSE i \in 1..Len(t) : t[i] = "-" /\ \A j \in 1..(i-1) : t[j] # "-"
             IN  [language_code |-> SubSeq(t, 1, f - 1), has_region |-> TRUE,
                  region_code |-> SubSeq(t, f + 1, Len(t))]
        ELSE [language_code |-> t, has_region |-> FALSE, region_code |-> <<>>]

\* split_language_tag with a count-limited replace: only the first "_" becomes "-"
SplitLanguageTagFirstUnderscore(language_tag) ==
    LET t == ReplaceFirst(language_tag, "_", "-")
    IN  IF \E i \in 1..Len(t) : t[i] = "-"
        THEN LET f == CHOOSE i \in 1..Len(t) : t[i] = "-" /\ \A j \in 1..(i-1) : t[j] # "-"
             IN  [language_code |-> SubSeq(t, 1, f - 1), has_region |-> TRUE,
                  region_code |-> SubSeq(t, f + 1, Len(t))]
        ELSE [language_code |-> t, has_region |-> FALSE, region_code |-> <<>>]

\* split_language_tag: (language_code, region_code | None); has_region is FALSE
\* where Python returns None for the region.
SplitLanguageTag(language_tag) ==
    LET t == Replace(language_tag, "_", "-")
    IN  IF \E i \in 1..Len(t) : t[i] = "-"
        THEN LET f == CHOOSE i \in 1..Len(t) : t[i] = "-" /\ \A j \in 1..(i-1) : t[j] # "-"
             IN  [language_code |-> SubSeq(t, 1, f - 1), has_region |-> TRUE,
                  region_code |-> SubSeq(t, f + 1, Len(t))]
        ELSE [language_code |-> t, has_region |-> FALSE, region_code |-> <<>>]

\* normalize_language_tag: `if region_code:` is false for None and for "".
NormalizeLanguageTag(language_tag) ==
    LET parts == SplitLanguageTag(language_tag)
    IN  IF parts.has_region /\ parts.region_code # <<>>
        THEN Lower(parts.language_code) \o <<"-">> \o Upper(parts.region_code)
        ELSE Lower(parts.language_code)

-----------------------------------------------------------------------------
(* _utils.py: is_translatable_text, and the whitespace handling of translate_text *)

\* default of the min_length parameter
MinLength == 2

\* str.isspace() of one character, which is also what \s matches
IsSpace(c) == c \in {" ", "\n"}

IsDigitChar(c) == c \in {"1"}

\* str.isdigit(): non-empty and every character a digit
IsDigit(s) == s # <<>> /\ \A i \in 1..Len(s) : IsDigitChar(s[i])

\* str.strip()
Strip(s) ==
    LET keep == {i \in 1..Len(s) : ~IsSpace(s[i])}
    IN  IF keep = {} THEN <<>>
        ELSE SubSeq(s, CHOOSE i \in keep : \A j \in keep : i <= j,
                       CHOOSE i \in keep : \A j \in keep : j <= i)

\* is_translatable_text without its isdigit() test
IsTranslatableTextNoDigitTest(s, min_length) ==
    LET t == Strip(s)
    IN  t # <<>> /\ Len(t) >= min_length

\* is_translatable_text
IsTranslatableText(s, min_length) ==
    LET t == Strip(s)
    IN  t # <<>> /\ Len(t) >= min_length /\ ~IsDigit(t)

\* re.match(r"\s*", text).group(): the longest run of whitespace at the start
LeadingWhitespace(s) ==
    LET n == CHOOSE k \in 0..Len(s) :
                 /\ \A i \in 1..k : IsSpace(s[i])
                 /\ (k < Len(s) => ~IsSpace(s[k + 1]))
    IN  SubSeq(s, 1, n)

\* Where `$` matches: at the end of the string and just before a final newline.
AtDollar(s, k) == k = Len(s) + 1 \/ (k = Len(s) /\ s[Len(s)] = "\n")

\* re.search(r"\s*$", text).group(): the leftmost position from which a run of
\* whitespace reaches a `$` position, matched greedily.
TrailingWhitespace(s) ==
    LET Ends(i) == {k \in i..(Len(s) + 1) :
                        (\A j \in i..(k - 1) : IsSpace(s[j])) /\ AtDollar(s, k)}
        start == CHOOSE i \in 1..(Len(s) + 1) :
                     Ends(i) # {} /\ \A j \in 1..(i - 1) : Ends(j) = {}
        stop  == CHOOSE k \in Ends(start) : \A m \in Ends(start) : m <= k
    IN  SubSeq(s, start, stop - 1)

\* `if translated_text := cache.get(stripped_text)`: the branch is taken when the
\* key is present and its value is a non-empty string (None and "" are falsy).
CacheHit(c, key) == key \in DOMAIN c /\ c[key] # <<>>

\* cache[stripped_text] = translated_text
CachePut(c, key, value) ==
    [k \in DOMAIN c \cup {key} |-> IF k = key THEN value ELSE c[k]]

-----------------------------------------------------------------------------
(* Values held by the variables an entry point does not use *)

NoTag   == tag = <<>> /\ normalized = <<>>
NoText  == text = <<>> /\ cache0 = <<>> /\ result = <<>> /\ calls = 0
           /\ log = <<>> /\ prev = <<>>
NoLang  == src = <<>> /\ tgt = <<>> /\ cache = <<>>
NoHtml  == soup = <<>> /\ checked = 0 /\ verdict = FALSE
NoDoc   == doc = <<>> /\ doc0 = <<>> /\ idx = 0 /\ error = "" /\ sent = <<>>
NoDir   == files = {} /\ exclude_paths = {} /\ walk = <<>> /\ root = <<>> /\ pending = {} /\ handed = {} /\ written = <<>>

-----------------------------------------------------------------------------
(* normalize_language_tag applied to a tag, and again to what it returned *)

TagAlphabet == {"e", "N", "-", "_"}

InitTag ==
    /\ mode = "tag" /\ pc = "ready"
    /\ tag \in SeqsUpTo(TagAlphabet, MaxTagLen)
    /\ normalized = <<>>
    /\ NoText /\ NoLang /\ NoHtml /\ NoDoc /\ NoDir

Normalize ==
    /\ mode = "tag"
    /\ Len(normalized) < MaxApply
    /\ normalized' = Append(normalized,
           NormalizeLanguageTag(IF normalized = <<>> THEN tag
                                ELSE normalized[Len(normalized)]))
    /\ UNCHANGED <<mode, pc, tag, textVars, langVars, htmlVars, docVars, dirVars>>

NextTag == Normalize

SpecTag == InitTag /\ [][NextTag]_vars

\* C7: normalize_language_tag is idempotent: applied to its own result it returns
\* that result again, for every tag over letters of either case, "-" and "_".
NormalizeIdempotent ==
    \A i \in 2..Len(normalized) : normalized[i] = normalized[i - 1]

\* a tag with an empty part and with both separators has been normalized twice
NormalizeIdempotentWitness ==
    /\ Len(normalized) >= 2
    /\ \E i, j \in 1..Len(tag) : tag[i] = "_" /\ tag[j] = "-" /\ i < j
    /\ \E i \in 1..Len(tag) : tag[i] = "N"
    /\ normalized[1] # tag

-----------------------------------------------------------------------------
(* _text_translator.py: translate_text, called repeatedly with the same        *)
(* arguments on one cache. The external provider (GoogleTranslator.translate)  *)
(* is opaque: it returns any string, or raises.                                *)

TextAlphabet == {" ", "\n", "a", "1"}

Texts == SeqsUpTo(TextAlphabet, MaxTextLen)

\* en_us, EN-US, es
LangTags == { <<"e", "n", "_", "u", "s">>, <<"E", "N", "-", "U", "S">>, <<"e", "s">> }

\* what the provider may return: a str, the empty one included
ProviderResults == { <<>>, <<"X">>, <<"Y">> }

\* values a caller-supplied cache may hold
CachedValues == { <<>>, <<"X">> }

\* a key of the cache other than the text being translated
OtherKey == <<"a", "a">>

Caches(keys) == UNION { [K -> CachedValues] : K \in SUBSET keys }

Event(ev, val) == [ev |-> ev, val |-> val]

InitText ==
    /\ mode = "text" /\ pc = "ready"
    /\ text \in Texts
    /\ src \in LangTags /\ tgt \in LangTags
    /\ cache \in Caches({Strip(text), OtherKey})
    /\ cache0 = cache
    /\ result = <<>> /\ calls = 0 /\ log = <<>> /\ prev = <<>>
    /\ error = ""
    /\ NoTag /\ NoHtml /\ doc = <<>> /\ doc0 = <<>> /\ idx = 0 /\ sent = <<>> /\ NoDir

\* The record kept of a call that has returned or raised.
Finished == [outcome |-> pc, result |-> result, calls |-> calls, log |-> log,
             cache0 |-> cache0, cache |-> cache]

\* lines 28-43: the eligibility test, the language comparison, the whitespace
\* split and the cache lookup, up to the first return or to the sleep.
TranslateTextEnter ==
    /\ mode = "text"
    /\ \/ pc = "ready" /\ prev' = prev
       \/ pc \in {"returned", "raised"} /\ Len(prev) < MaxCalls - 1
          /\ prev' = Append(prev, Finished)
    /\ cache0' = cache
    /\ calls' = 0
    /\ error' = ""
    /\ IF ~IsTranslatableText(text, MinLength)
       THEN /\ result' = text /\ log' = <<>> /\ pc' = "returned"
       ELSE IF NormalizeLanguageTag(src) = NormalizeLanguageTag(tgt)
       THEN /\ result' = text /\ log' = <<>> /\ pc' = "returned"
       ELSE /\ log' = <<Event("get", Strip(text))>>
            /\ IF CacheHit(cache, Strip(text))
               THEN /\ result' = LeadingWhitespace(text) \o cache[Strip(text)]
                                     \o TrailingWhitespace(text)
                    /\ pc' = "returned"
               ELSE /\ result' = <<>>
                    /\ pc' = "sleep"
    /\ UNCHANGED <<mode, text, src, tgt, cache, tagVars, htmlVars, doc, doc0, idx, sent, dirVars>>

\* line 46: time.sleep(1)
TranslateTextSleep ==
    /\ mode = "text" /\ pc = "sleep"
    /\ log' = Append(log, Event("sleep", <<>>))
    /\ pc' = "provider"
    /\ UNCHANGED <<mode, text, src, tgt, cache, cache0, result, calls, prev, error,
                   tagVars, htmlVars, doc, doc0, idx, sent, dirVars>>

\* lines 47-56: the provider is invoked with the unstripped text and returns r;
\* r is stored under the stripped text and returned between the whitespace.
TranslateTextProviderReturns(r) ==
    /\ mode = "text" /\ pc = "provider"
    /\ calls' = calls + 1
    /\ cache' = CachePut(cache, Strip(text), r)
    /\ log' = log \o <<Event("call", text), Event("set", Strip(text))>>
    /\ result' = LeadingWhitespace(text) \o r \o TrailingWhitespace(text)
    /\ pc' = "returned"
    /\ UNCHANGED <<mode, text, src, tgt, cache0, prev, error,
                   tagVars, htmlVars, doc, doc0, idx, sent, dirVars>>

\* a translate_text that writes an entry for the stripped text although the
\* provider raised
TranslateTextProviderRaisesAfterStore ==
    /\ mode = "text" /\ pc = "provider"
    /\ calls' = calls + 1
    /\ cache' = CachePut(cache, Strip(text), <<>>)
    /\ log' = log \o <<Event("call", text), Event("set", Strip(text))>>
    /\ error' = "provider"
    /\ pc' = "raised"
    /\ UNCHANGED <<mode, text, src, tgt, cache0, result, prev,
                   tagVars, htmlVars, doc, doc0, idx, sent, dirVars>>

\* lines 49-51: the provider raises and nothing below the call runs.
TranslateTextProviderRaises ==
    /\ mode = "text" /\ pc = "provider"
    /\ calls' = calls + 1
    /\ log' = Append(log, Event("call", text))
    /\ error' = "provider"
    /\ pc' = "raised"
    /\ UNCHANGED <<mode, text, src, tgt, cache, cache0, result, prev,
                   tagVars, htmlVars, doc, doc0, idx, sent, dirVars>>

NextText ==
    \/ TranslateTextEnter
    \/ TranslateTextSleep
    \/ \E r \in ProviderResults : TranslateTextProviderReturns(r)
    \/ TranslateTextProviderRaises

SpecText == InitText /\ [][NextText]_vars

Eligible == IsTranslatableText(text, MinLength)

LangsDiffer == NormalizeLanguageTag(src) # NormalizeLanguageTag(tgt)

\* C3: after a call that missed the cache and translated through the provider, the
\* next call with the same text, languages and cache invokes the provider no
\* further time and returns the same result.
SecondCallNoProvider ==
    (/\ mode = "text" /\ pc \in {"returned", "raised"}
     /\ prev # <<>>
     /\ prev[Len(prev)].outcome = "returned" /\ prev[Len(prev)].calls = 1)
    => /\ pc = "returned"
       /\ calls = 0
       /\ result = prev[Len(prev)].result

\* C4: for eligible text and languages that differ, the returned string is the
\* leading whitespace, then the value the cache held under the stripped text if it
\* held one and else the provider's result, then the trailing whitespace.
ReturnsCachedOrProvided ==
    (mode = "text" /\ pc = "returned" /\ Eligible /\ LangsDiffer)
    => result = LeadingWhitespace(text)
                \o (IF Strip(text) \in DOMAIN cache0 THEN cache0[Strip(text)]
                    ELSE cache[Strip(text)])
                \o TrailingWhitespace(text)

\* C5: text that is empty, shorter than 2 characters or all digits after trimming is
\* returned unchanged, with no provider call and the cache as it was.
IneligibleUnchanged ==
    (/\ mode = "text" /\ pc # "ready"
     /\ LET t == Strip(text) IN t = <<>> \/ Len(t) < 2 \/ IsDigit(t))
    => /\ pc = "returned"
       /\ result = text
       /\ calls = 0
       /\ cache = cache0
       /\ log = <<>>

\* ineligible text whose trimmed form is a key of the cache was passed through
IneligibleUnchangedWitness ==
    /\ mode = "text" /\ pc = "returned" /\ ~Eligible /\ LangsDiffer
    /\ Strip(text) \in DOMAIN cache /\ cache[Strip(text)] # <<>>
    /\ IsDigit(Strip(text)) /\ text # Strip(text)

\* C6: when source and target are equal after normalization the text is returned
\* unchanged, the cache is neither read nor written, the provider is not invoked.
SameLanguageUnchanged ==
    (/\ mode = "text" /\ pc # "ready"
     /\ \/ ~LangsDiffer
        \/ Lower(Replace(src, "_", "-")) = Lower(Replace(tgt, "_", "-")))
    => /\ pc = "returned"
       /\ result = text
       /\ calls = 0
       /\ cache = cache0
       /\ log = <<>>

\* eligible, cached text was passed through for en_us to EN-US
SameLanguageUnchangedWitness ==
    /\ mode = "text" /\ pc = "returned" /\ Eligible
    /\ src # tgt /\ ~LangsDiffer
    /\ CacheHit(cache, Strip(text))

\* the positions of the events ev in the log of the current call
LogPositions(ev) == {i \in 1..Len(log) : log[i].ev = ev}

\* the call is past its cache lookup, and the cache held the stripped text
LookupHit == Eligible /\ LangsDiffer /\ pc # "ready" /\ Strip(text) \in DOMAIN cache0

\* every provider invocation of the call comes after a lookup of the stripped text
\* that found nothing and after the delay
CallAfterMissAndDelay ==
    \A c \in LogPositions("call") :
        /\ \E g \in LogPositions("get") : \E d \in LogPositions("sleep") :
              g < d /\ d < c /\ log[g].val = Strip(text)
        /\ Strip(text) \notin DOMAIN cache0

\* a call that invoked the provider and returned has stored the raw result under
\* the stripped text after the invocation
ResultStoredBeforeReturn ==
    (pc = "returned" /\ LogPositions("call") # {})
    => (/\ \A c \in LogPositions("call") :
              \E w \in LogPositions("set") : c < w /\ log[w].val = Strip(text)
        /\ Strip(text) \in DOMAIN cache
        /\ result = LeadingWhitespace(text) \o cache[Strip(text)]
                       \o TrailingWhitespace(text))

\* on a hit the call returns with no delay and no provider invocation
HitSkipsProvider ==
    LookupHit
    => (/\ pc = "returned"
        /\ LogPositions("sleep") = {}
        /\ LogPositions("call") = {}
        /\ calls = 0)

\* C12: the cache is read before any external call and written after every one:
\* the provider is invoked only after a lookup of the stripped text has missed and
\* after the delay, a provider result is stored under the stripped text before the
\* call returns, and on a hit neither the delay nor the provider occurs.
CacheReadBeforeWrittenAfter ==
    mode = "text"
    => (CallAfterMissAndDelay /\ ResultStoredBeforeReturn /\ HitSkipsProvider)

-----------------------------------------------------------------------------
(* _html_translator.py: the tree and _is_element_translatable                  *)
(*                                                                             *)
(* A tree is a sequence of nodes in document order. Node 1 is the              *)
(* BeautifulSoup object itself (name "[document]", no attributes, parent None, *)
(* written 0); every other node names its parent, which precedes it.           *)

Node(kind, name, parent, attrs, string) ==
    [kind |-> kind, name |-> name, parent |-> parent, attrs |-> attrs, string |-> string]

NoAttrs == <<>>

DocumentNode == Node("document", "[document]", 0, NoAttrs, <<>>)

\* a is d or an ancestor of d, following the parent links of p
RECURSIVE IsAncestorOrSelf(_, _, _)
IsAncestorOrSelf(p, a, d) ==
    IF a = d THEN TRUE
    ELSE IF d <= 1 THEN FALSE
    ELSE IsAncestorOrSelf(p, a, p[d])

\* Parent links of n nodes below the document that number the tree in document
\* order: a node hangs under the node before it or under one of its ancestors.
ParentMaps(n) ==
    {p \in [2..(n + 1) -> 1..n] :
        \A i \in 2..(n + 1) :
            /\ p[i] < i
            /\ (i > 2 => IsAncestorOrSelf(p, p[i], i - 1))}

\* the chain of a tree's parent links, as a function on 2..Len(tree)
Parents(tree) == [i \in 2..Len(tree) |-> tree[i].parent]

\* e itself and its ancestors, the document node included
AncestorsOrSelf(tree, e) ==
    {a \in 1..Len(tree) : IsAncestorOrSelf(Parents(tree), a, e)}

\* _is_element_translatable with `!= "no"` in place of `== "yes"`
RECURSIVE IsElementTranslatableUnlessNo(_, _)
IsElementTranslatableUnlessNo(tree, element) ==
    IF element = 0 THEN TRUE
    ELSE IF tree[element].name \in {"script", "style"} THEN FALSE
    ELSE IF "translate" \in DOMAIN tree[element].attrs
         THEN tree[element].attrs["translate"] # "no"
    ELSE IsElementTranslatableUnlessNo(tree, tree[element].parent)

\* _is_element_translatable: the while loop over element.parent; element 0 is None
RECURSIVE IsElementTranslatable(_, _)
IsElementTranslatable(tree, element) ==
    IF element = 0 THEN TRUE
    ELSE IF tree[element].name \in {"script", "style"} THEN FALSE
    ELSE IF "translate" \in DOMAIN tree[element].attrs
         THEN tree[element].attrs["translate"] = "yes"
    ELSE IsElementTranslatable(tree, tree[element].parent)

-----------------------------------------------------------------------------
(* _is_element_translatable on every element of every short parent chain. The *)
(* function reads nothing of a tree but the name, the attributes and the       *)
(* parent of the nodes on the path from the element to the document, so the    *)
(* trees drawn are those paths: any Tag tree, however it was built.            *)

TreeNames == {"p", "script", "style"}

\* attribute dictionaries that differ in their translate attribute
TranslateAttrs == {NoAttrs} \cup {[a \in {"translate"} |-> v] : v \in {"yes", "no", "YES"}}

\* the chain document > element 2 > ... > element n + 1
TagChain(n, names, attrs) ==
    [i \in 1..(n + 1) |->
        IF i = 1 THEN DocumentNode
        ELSE Node("tag", names[i], i - 1, attrs[i], <<>>)]

InitTree ==
    /\ mode = "tree" /\ pc = "ready"
    /\ \E n \in 1..MaxTreeNodes :
         \E names \in [2..(n + 1) -> TreeNames], attrs \in [2..(n + 1) -> TranslateAttrs] :
            soup = TagChain(n, names, attrs)
    /\ checked = 0 /\ verdict = FALSE
    /\ NoTag /\ NoText /\ NoLang /\ NoDoc /\ NoDir

IsElementTranslatableCall(element) ==
    /\ mode = "tree" /\ pc = "ready"
    /\ checked' = element
    /\ verdict' = IsElementTranslatable(soup, element)
    /\ pc' = "returned"
    /\ UNCHANGED <<mode, soup, tagVars, textVars, langVars, docVars, dirVars>>

NextTree == \E element \in 2..Len(soup) : IsElementTranslatableCall(element)

SpecTree == InitTree /\ [][NextTree]_vars

\* the check has returned for an element with a <script> or <style> on its path
UnderScriptOrStyle ==
    \E a \in AncestorsOrSelf(soup, checked) : soup[a].name \in {"script", "style"}

\* the nodes on the path of the checked element that carry a translate attribute
WithTranslate ==
    {a \in AncestorsOrSelf(soup, checked) : "translate" \in DOMAIN soup[a].attrs}

\* C1: for an element with no <script> or <style> on its path, the nearest node on
\* the path (the element first) that carries a translate attribute decides: "yes"
\* is translatable, any other value is not; with no such node it is translatable.
NearestTranslateDecides ==
    (mode = "tree" /\ pc = "returned" /\ ~UnderScriptOrStyle)
    => verdict = IF WithTranslate = {} THEN TRUE
                 ELSE LET nearest == CHOOSE a \in WithTranslate :
                                         \A b \in WithTranslate : b <= a
                      IN  soup[nearest].attrs["translate"] = "yes"

\* an element without the attribute, below translate="yes", below translate="no"
NearestTranslateDecidesWitness ==
    /\ mode = "tree" /\ pc = "returned" /\ ~UnderScriptOrStyle
    /\ verdict
    /\ "translate" \notin DOMAIN soup[checked].attrs
    /\ \E y, n \in WithTranslate :
          /\ n < y
          /\ soup[y].attrs["translate"] = "yes"
          /\ soup[n].attrs["translate"] = "no"

-----------------------------------------------------------------------------
(* translate_text as the format translators call it: one call, start to end.   *)
(* r is what the provider returns if the call reaches it.                      *)

\* the call gets past lines 28-43 and invokes the provider
TextNeedsProvider(t, s, g, c) ==
    /\ IsTranslatableText(t, MinLength)
    /\ NormalizeLanguageTag(s) # NormalizeLanguageTag(g)
    /\ ~CacheHit(c, Strip(t))

\* the string translate_text returns
TextReturn(t, s, g, c, r) ==
    IF ~IsTranslatableText(t, MinLength) THEN t
    ELSE IF NormalizeLanguageTag(s) = NormalizeLanguageTag(g) THEN t
    ELSE LeadingWhitespace(t)
         \o (IF CacheHit(c, Strip(t)) THEN c[Strip(t)] ELSE r)
         \o TrailingWhitespace(t)

\* the cache translate_text leaves behind
TextCache(t, s, g, c, r) ==
    IF TextNeedsProvider(t, s, g, c) THEN CachePut(c, Strip(t), r) ELSE c

-----------------------------------------------------------------------------
(* _html_translator.py: translate_html *)

TranslatableMetaNames ==
    {"description", "twitter:title", "twitter:description", "twitter:image:alt"}

TranslatableMetaProperties == {"og:title", "og:description", "og:image:alt"}

TranslatableHtmlAttributes ==
    <<"title", "aria-label", "aria-placeholder", "aria-describedby",
      "placeholder", "value", "label", "alt">>

Indices(tree) == [i \in 1..Len(tree) |-> i]

IsTag(tree, i) == tree[i].kind = "tag"

HasAttr(tree, i, a) == IsTag(tree, i) /\ a \in DOMAIN tree[i].attrs

\* element[a] = v
SetAttr(tree, i, a, v) ==
    [tree EXCEPT ![i].attrs =
        [k \in DOMAIN tree[i].attrs \cup {a} |-> IF k = a THEN v ELSE tree[i].attrs[k]]]

\* soup.find(name): the first element of that name in document order, 0 for None.
\* A Tag is truthy whatever it holds, so `if html_tag:` is a test for None.
FindFirst(matching) ==
    IF matching # {} THEN CHOOSE i \in matching : \A j \in matching : i <= j ELSE 0

FindHtml(tree) ==
    FindFirst({i \in 2..Len(tree) : IsTag(tree, i) /\ tree[i].name = "html"})

FindOgLocale(tree) ==
    FindFirst({i \in 2..Len(tree) : /\ IsTag(tree, i) /\ tree[i].name = "meta"
                                    /\ HasAttr(tree, i, "property")
                                    /\ tree[i].attrs["property"] = "og:locale"})

\* the lang value written when the target tag is used as it was passed in
HtmlLangValueAsPassed(target_language) == target_language

\* line 113: the value written to lang
HtmlLangValue(target_language) == NormalizeLanguageTag(target_language)

\* lines 112-123: the lang attribute of <html> and the content of og:locale
HtmlHeadUpdate(tree, target_language) ==
    LET target   == HtmlLangValue(target_language)
        html_tag == FindHtml(tree)
        t1       == IF html_tag # 0 THEN SetAttr(tree, html_tag, "lang", target) ELSE tree
        og       == FindOgLocale(t1)
    IN  IF og # 0 THEN SetAttr(t1, og, "content", ReplaceFirst(target, "-", "_")) ELSE t1

Frag(node, slot) == [node |-> node, slot |-> slot]

\* find_all: the matching nodes in document order, each with the slot looked at
FragsOf(tree, matching, slot) ==
    LET sel == SelectSeq(Indices(tree), LAMBDA i : i \in matching)
    IN  [k \in 1..Len(sel) |-> Frag(sel[k], slot)]

\* line 76: soup.find_all("meta", content=True)
MetaFrags(tree) ==
    FragsOf(tree, {i \in 2..Len(tree) : tree[i].name = "meta" /\ HasAttr(tree, i, "content")},
            "content")

\* line 129: soup.find_all(string=True), comments and the like included
StringFrags(tree) ==
    FragsOf(tree, {i \in 2..Len(tree) : tree[i].kind \in {"text", "comment"}}, "string")

\* lines 142-143: for each attribute in turn, the elements that carry it
RECURSIVE AttrFrags(_, _)
AttrFrags(tree, k) ==
    IF k > Len(TranslatableHtmlAttributes) THEN <<>>
    ELSE FragsOf(tree, {i \in 2..Len(tree) : HasAttr(tree, i, TranslatableHtmlAttributes[k])},
                 TranslatableHtmlAttributes[k])
         \o AttrFrags(tree, k + 1)

\* everything the three loops of translate_html look at, in order
HtmlFrags(tree) == MetaFrags(tree) \o StringFrags(tree) \o AttrFrags(tree, 1)

\* the conditions under which a loop body calls translate_text
HtmlFragApplies(tree, f) ==
    IF f.slot = "content"
    THEN /\ \/ /\ HasAttr(tree, f.node, "name")
               /\ tree[f.node].attrs["name"] \in TranslatableMetaNames
            \/ /\ HasAttr(tree, f.node, "property")
               /\ tree[f.node].attrs["property"] \in TranslatableMetaProperties
         /\ IsElementTranslatable(tree, f.node)
    ELSE IF f.slot = "string"
    THEN /\ tree[f.node].kind = "text"
         /\ tree[tree[f.node].parent].kind \in {"tag", "document"}
         /\ Strip(tree[f.node].string) # <<>>
         /\ IsElementTranslatable(tree, tree[f.node].parent)
    ELSE IsElementTranslatable(tree, f.node)

HtmlFragText(tree, f) ==
    IF f.slot = "string" THEN tree[f.node].string ELSE tree[f.node].attrs[f.slot]

\* meta_tag["content"] = ..., text_node.replace_with(...), element[attr] = ...
HtmlFragSet(tree, f, v) ==
    IF f.slot = "string" THEN [tree EXCEPT ![f.node].string = v]
    ELSE SetAttr(tree, f.node, f.slot, v)

-----------------------------------------------------------------------------
(* _rss_feed_translator.py: translate_rss_feed. A feed is the <rss> root: whether *)
(* it has a <channel>, the text of channel/language if that element is there      *)
(* (a sequence of none or one), and the items, each with an optional title and    *)
(* description; an element that is there with no text holds <<>>.                 *)

\* lines 30-32
RssHeadUpdate(feed, target_language) ==
    IF feed.language # <<>>
    THEN [feed EXCEPT !.language = <<Lower(NormalizeLanguageTag(target_language))>>]
    ELSE feed

\* lines 35-46: title, then description, of each item
RssFrags(feed) ==
    [k \in 1..(2 * Len(feed.items)) |->
        Frag((k + 1) \div 2, IF k % 2 = 1 THEN "title" ELSE "description")]

\* `element is not None and element.text`
RssFragApplies(feed, f) ==
    feed.items[f.node][f.slot] # <<>> /\ feed.items[f.node][f.slot][1] # <<>>

RssFragText(feed, f) == feed.items[f.node][f.slot][1]

RssFragSet(feed, f, v) == [feed EXCEPT !.items[f.node][f.slot] = <<v>>]

-----------------------------------------------------------------------------
(* _web_app_manifest_translator.py: translate_web_app_manifest. A manifest is     *)
(* its parsed JSON object: the top-level string fields and the shortcuts array    *)
(* (empty when the key is missing), each entry a dictionary of string fields.     *)
(* The text it was parsed from holds the word "description" exactly when some     *)
(* key of it is "description": the string values here cannot spell the word.      *)

\* line 14: `"description" in manifest`, a substring test on the JSON text
RawContainsDescription(m) ==
    \/ "description" \in DOMAIN m.fields
    \/ \E i \in 1..Len(m.shortcuts) : "description" \in DOMAIN m.shortcuts[i]

\* lines 14-24: the description, then name and short_name of each shortcut
ManifestFrags(m) ==
    <<Frag(0, "description")>>
    \o [k \in 1..(2 * Len(m.shortcuts)) |->
           Frag((k + 1) \div 2, IF k % 2 = 1 THEN "name" ELSE "short_name")]

\* the exception the loop body raises by itself, "" if none: data["description"]
\* on a missing key, and translate_text(shortcut["name"]) without its arguments
ManifestFragFault(m, f) ==
    IF f.node = 0
    THEN IF RawContainsDescription(m) /\ "description" \notin DOMAIN m.fields
         THEN "KeyError" ELSE ""
    ELSE IF f.slot = "name" /\ "name" \in DOMAIN m.shortcuts[f.node]
         THEN "TypeError" ELSE ""

ManifestFragApplies(m, f) ==
    IF f.node = 0 THEN RawContainsDescription(m)
    ELSE f.slot \in DOMAIN m.shortcuts[f.node]

ManifestFragText(m, f) ==
    IF f.node = 0 THEN m.fields["description"] ELSE m.shortcuts[f.node][f.slot]

ManifestFragSet(m, f, v) ==
    IF f.node = 0 THEN [m EXCEPT !.fields["description"] = v]
    ELSE [m EXCEPT !.shortcuts[f.node][f.slot] = v]

-----------------------------------------------------------------------------
(* The three format translators, each run once on a small document. A call to  *)
(* translate_text is one step; the provider's answer, or its failure, is the   *)
(* step's nondeterminism.                                                      *)

TextA == <<" ", "a", "a">>
TextB == <<"a", "1">>

\* the nodes an HTML document is put together from
HtmlNodeKinds ==
    { [kind |-> "tag", name |-> "html", attrs |-> NoAttrs, string |-> <<>>],
      [kind |-> "tag", name |-> "html", string |-> <<>>,
       attrs |-> [a \in {"lang", "translate"} |->
                     IF a = "lang" THEN <<"e", "s">> ELSE "no"]],
      [kind |-> "tag", name |-> "p", attrs |-> NoAttrs, string |-> <<>>],
      [kind |-> "tag", name |-> "p", string |-> <<>>,
       attrs |-> [a \in {"lang", "translate"} |->
                     IF a = "lang" THEN <<"e", "s">> ELSE "no"]],
      [kind |-> "tag", name |-> "span", string |-> <<>>,
       attrs |-> [a \in {"translate", "title"} |->
                     IF a = "title" THEN TextB ELSE "yes"]],
      [kind |-> "tag", name |-> "meta", string |-> <<>>,
       attrs |-> [a \in {"property", "content"} |->
                     IF a = "property" THEN "og:locale" ELSE <<"e", "s", "_", "E", "S">>]],
      [kind |-> "tag", name |-> "meta", string |-> <<>>,
       attrs |-> [a \in {"name", "content"} |->
                     IF a = "name" THEN "description" ELSE TextA]],
      [kind |-> "tag", name |-> "script", attrs |-> NoAttrs, string |-> <<>>],
      [kind |-> "text", name |-> "", attrs |-> NoAttrs, string |-> TextA],
      [kind |-> "comment", name |-> "", attrs |-> NoAttrs, string |-> TextA] }

\* What html.parser builds: strings and the void <meta> have no children, and the
\* content of <script> and <style> is one run of text, never an element.
WellFormed(tree) ==
    \A i \in 2..Len(tree) :
        LET par == tree[tree[i].parent]
        IN  /\ par.kind \in {"tag", "document"}
            /\ par.name # "meta"
            /\ (par.name \in {"script", "style"} => tree[i].kind = "text")

\* the tree of n nodes below the document with parent links p and nodes kinds
HtmlTree(n, p, kinds) ==
    [i \in 1..(n + 1) |->
        IF i = 1 THEN DocumentNode
        ELSE Node(kinds[i].kind, kinds[i].name, p[i], kinds[i].attrs, kinds[i].string)]

OptionalTexts == { <<>>, << <<>> >>, <<TextA>>, <<TextB>> }

RssItems == [title : OptionalTexts, description : OptionalTexts]

Feeds ==
    { [channel |-> FALSE, language |-> <<>>, items |-> <<>>] }
    \cup [channel : {TRUE}, language : { <<>>, << <<"e", "s">> >> },
          items : SeqsUpTo(RssItems, MaxItems)]

ManifestFields ==
    {[k \in K |-> IF k = "description" THEN TextA ELSE TextB] : K \in SUBSET {"name", "description"}}

ShortcutEntries ==
    {[k \in K |-> IF k = "short_name" THEN TextA ELSE TextB] :
        K \in SUBSET {"name", "short_name", "description"}}

Manifests == [fields : ManifestFields, shortcuts : SeqsUpTo(ShortcutEntries, MaxShortcuts)]

\* EN-US, es
DocSources == { <<"E", "N", "-", "U", "S">>, <<"e", "s">> }

\* en_us, es
DocTargets == { <<"e", "n", "_", "u", "s">>, <<"e", "s">> }

\* empty, or holding a translation of the text of TextA
DocCaches == {c \in Caches({Strip(TextA)}) : \A k \in DOMAIN c : c[k] # <<>>}

\* what the provider returns to a format translator
DocProviderResults == { <<>>, <<"X">> }

InitFormat ==
    /\ pc = "start"
    /\ src \in DocSources /\ tgt \in DocTargets
    /\ cache \in DocCaches
    /\ idx = 0 /\ error = "" /\ sent = <<>>
    /\ checked = 0 /\ verdict = FALSE
    /\ NoTag /\ NoText /\ NoDir

InitDocs ==
    /\ InitFormat
    /\ \/ /\ mode = "html"
          /\ \E n \in 0..MaxDocNodes :
               \E p \in ParentMaps(n), kinds \in [2..(n + 1) -> HtmlNodeKinds] :
                  soup = HtmlTree(n, p, kinds)
          /\ WellFormed(soup)
          /\ doc0 = soup /\ doc = <<>>
       \/ mode = "rss" /\ doc \in Feeds /\ doc0 = doc /\ soup = <<>>
       \/ mode = "manifest" /\ doc \in Manifests /\ doc0 = doc /\ soup = <<>>

\* translate_html, lines 109-123
TranslateHtmlHead ==
    /\ mode = "html" /\ pc = "start"
    /\ soup' = HtmlHeadUpdate(soup, tgt)
    /\ pc' = "loop" /\ idx' = 1
    /\ UNCHANGED <<mode, tagVars, textVars, langVars, checked, verdict, doc, doc0,
                   error, sent, dirVars>>

\* translate_rss_feed, lines 26-32
TranslateRssHead ==
    /\ mode = "rss" /\ pc = "start"
    /\ doc' = RssHeadUpdate(doc, tgt)
    /\ pc' = "loop" /\ idx' = 1
    /\ UNCHANGED <<mode, tagVars, textVars, langVars, htmlVars, doc0, error, sent, dirVars>>

\* translate_web_app_manifest, line 13
TranslateManifestParse ==
    /\ mode = "manifest" /\ pc = "start"
    /\ pc' = "loop" /\ idx' = 1
    /\ UNCHANGED <<mode, tagVars, textVars, langVars, htmlVars, doc, doc0, error, sent,
                   dirVars>>

CurFrags ==
    IF mode = "html" THEN HtmlFrags(soup)
    ELSE IF mode = "rss" THEN RssFrags(doc)
    ELSE ManifestFrags(doc)

CurFrag == CurFrags[idx]

CurFault == IF mode = "manifest" THEN ManifestFragFault(doc, CurFrag) ELSE ""

CurApplies ==
    IF mode = "html" THEN HtmlFragApplies(soup, CurFrag)
    ELSE IF mode = "rss" THEN RssFragApplies(doc, CurFrag)
    ELSE ManifestFragApplies(doc, CurFrag)

CurText ==
    IF mode = "html" THEN HtmlFragText(soup, CurFrag)
    ELSE IF mode = "rss" THEN RssFragText(doc, CurFrag)
    ELSE ManifestFragText(doc, CurFrag)

\* translate_html passes on the target it normalized at line 113
TargetArg == IF mode = "html" THEN HtmlLangValue(tgt) ELSE tgt

InLoop == mode \in {"html", "rss", "manifest"} /\ pc = "loop" /\ idx <= Len(CurFrags)

\* the fragment is written back and the loop moves on
StoreFragment(v) ==
    /\ soup' = IF mode = "html" THEN HtmlFragSet(soup, CurFrag, v) ELSE soup
    /\ doc' = IF mode = "rss" THEN RssFragSet(doc, CurFrag, v)
              ELSE IF mode = "manifest" THEN ManifestFragSet(doc, CurFrag, v)
              ELSE doc
    /\ sent' = Append(sent, CurText)
    /\ idx' = idx + 1

\* the loop body raises by itself
FragmentFaults ==
    /\ InLoop /\ CurFault # ""
    /\ error' = CurFault /\ pc' = "raised"
    /\ UNCHANGED <<mode, tagVars, textVars, langVars, htmlVars, doc, doc0, idx, sent,
                   dirVars>>

\* the loop body's conditions are false: nothing is translated
FragmentSkipped ==
    /\ InLoop /\ CurFault = "" /\ ~CurApplies
    /\ idx' = idx + 1
    /\ UNCHANGED <<mode, pc, tagVars, textVars, langVars, htmlVars, doc, doc0, error, sent,
                   dirVars>>

\* translate_text returns without the provider: ineligible text, equal languages
\* or a cache hit
FragmentLocal ==
    /\ InLoop /\ CurFault = "" /\ CurApplies
    /\ ~TextNeedsProvider(CurText, src, TargetArg, cache)
    /\ StoreFragment(TextReturn(CurText, src, TargetArg, cache, <<>>))
    /\ UNCHANGED <<mode, pc, tagVars, textVars, langVars, checked, verdict, doc0, error,
                   dirVars>>

\* translate_text misses the cache, the provider returns r
FragmentProviderReturns(r) ==
    /\ InLoop /\ CurFault = "" /\ CurApplies
    /\ TextNeedsProvider(CurText, src, TargetArg, cache)
    /\ StoreFragment(TextReturn(CurText, src, TargetArg, cache, r))
    /\ cache' = TextCache(CurText, src, TargetArg, cache, r)
    /\ UNCHANGED <<mode, pc, tagVars, textVars, src, tgt, checked, verdict, doc0, error,
                   dirVars>>

\* translate_text misses the cache, the provider raises: the translator is left
FragmentProviderRaises ==
    /\ InLoop /\ CurFault = "" /\ CurApplies
    /\ TextNeedsProvider(CurText, src, TargetArg, cache)
    /\ sent' = Append(sent, CurText)
    /\ error' = "provider" /\ pc' = "raised"
    /\ UNCHANGED <<mode, tagVars, textVars, langVars, htmlVars, doc, doc0, idx, dirVars>>

\* str(soup), ET.tostring(root), json.dumps(data)
FormatReturn ==
    /\ mode \in {"html", "rss", "manifest"} /\ pc = "loop" /\ idx > Len(CurFrags)
    /\ pc' = "returned"
    /\ UNCHANGED <<mode, tagVars, textVars, langVars, htmlVars, docVars, dirVars>>

NextDocs ==
    \/ TranslateHtmlHead
    \/ TranslateRssHead
    \/ TranslateManifestParse
    \/ FragmentFaults
    \/ FragmentSkipped
    \/ FragmentLocal
    \/ \E r \in DocProviderResults : FragmentProviderReturns(r)
    \/ FragmentProviderRaises
    \/ FormatReturn

SpecDocs == InitDocs /\ [][NextDocs]_vars

\* every lang attribute of the tree is one the parsed document had, value included
LangAttrsUntouched ==
    \A i \in 1..Len(soup) :
        HasAttr(soup, i, "lang")
        => HasAttr(doc0, i, "lang") /\ soup[i].attrs["lang"] = doc0[i].attrs["lang"]

\* C8: once translate_html is past its head, and when it returns, the first
\* <html> element of the document carries lang = the target tag with its language
\* in lower case, its region in upper case and a hyphen between, whatever lang and
\* translate it carried and whatever the source is; without an <html> element the
\* lang attributes of the document are those it was parsed with.
HtmlLangIsNormalizedTarget ==
    (mode = "html" /\ pc \in {"loop", "returned"})
    => IF FindHtml(doc0) # 0
       THEN /\ HasAttr(soup, FindHtml(doc0), "lang")
            /\ soup[FindHtml(doc0)].attrs["lang"] = NormalizeLanguageTag(tgt)
            /\ (tgt = <<"e", "n", "_", "u", "s">>
                  => soup[FindHtml(doc0)].attrs["lang"] = <<"e", "n", "-", "U", "S">>)
       ELSE LangAttrsUntouched

\* translate_html returned a document whose <html lang="es" translate="no"> now
\* carries lang="en-US"
HtmlLangIsNormalizedTargetWitness ==
    /\ mode = "html" /\ pc = "returned"
    /\ FindHtml(doc0) # 0
    /\ HasAttr(doc0, FindHtml(doc0), "lang")
    /\ doc0[FindHtml(doc0)].attrs["translate"] = "no"
    /\ doc0[FindHtml(doc0)].attrs["lang"] # soup[FindHtml(doc0)].attrs["lang"]
    /\ soup[FindHtml(doc0)].attrs["lang"] # tgt
    /\ NormalizeLanguageTag(src) # NormalizeLanguageTag(tgt)

\* C9: a missing optional element is nothing to do and never an error: no <html>
\* element, no channel/language element, no top-level description field, and the
\* translator raises nothing over it and leaves that part as it was.
MissingOptionalIsNoError ==
    /\ (mode = "html" /\ FindHtml(doc0) = 0)
          => /\ error \in {"", "provider"}
             /\ LangAttrsUntouched
    /\ (mode = "rss" /\ doc0.language = <<>>)
          => /\ error \in {"", "provider"}
             /\ doc.language = <<>>
    /\ (mode = "manifest" /\ "description" \notin DOMAIN doc0.fields)
          => /\ error # "KeyError"
             /\ "description" \notin DOMAIN doc.fields

\* the shortcuts of the manifest that have a name field
NamedShortcuts == {i \in 1..Len(doc0.shortcuts) : "name" \in DOMAIN doc0.shortcuts[i]}

\* every shortcut of the manifest has a short_name field and no other
OnlyShortNames ==
    \A i \in 1..Len(doc0.shortcuts) : DOMAIN doc0.shortcuts[i] = {"short_name"}

\* the first shortcut with a name field
FirstNamedShortcut == CHOOSE i \in NamedShortcuts : \A k \in NamedShortcuts : i <= k

\* C13: a manifest with a shortcut that has a name field never returns output: it
\* fails at the translate_text call for that name, which lacks its arguments
\* (unless the provider failed on an earlier field), and earlier fields may have
\* changed the cache; a manifest whose shortcuts have only short_name fields hands
\* them to translate_text and is serialized.
ShortcutNameCallFails ==
    mode = "manifest"
    => (/\ NamedShortcuts # {}
           => (/\ pc # "returned"
               /\ pc = "raised"
                  => (\/ error = "provider"
                      \/ /\ error = "TypeError"
                         /\ CurFrag = Frag(FirstNamedShortcut, "name")))
        /\ OnlyShortNames
           => (/\ error \in {"", "provider"}
               /\ pc = "returned"
                  => (/\ Len(doc.shortcuts) = Len(doc0.shortcuts)
                      /\ \A i \in 1..Len(doc0.shortcuts) :
                            /\ DOMAIN doc.shortcuts[i] = {"short_name"}
                            /\ \E k \in 1..Len(sent) :
                                  sent[k] = doc0.shortcuts[i]["short_name"])))

-----------------------------------------------------------------------------
(* translate_text called directly, and called by the three format translators: *)
(* the executions of SpecText and of SpecDocs together.                        *)

InitProvider == InitText \/ InitDocs

NextProvider == NextText \/ NextDocs

SpecProvider == InitProvider /\ [][NextProvider]_vars

FormatModes == {"html", "rss", "manifest"}

\* a direct call whose provider raised: the call is left by the exception, the
\* provider was invoked once, the cache is the one the call was entered with
TextCallFailed ==
    (mode = "text" /\ error = "provider")
    => /\ pc = "raised"
       /\ calls = 1
       /\ Cardinality(LogPositions("call")) = 1
       /\ LogPositions("set") = {}
       /\ cache = cache0
       /\ result = <<>>

\* a format translator whose provider raised: it is left by the exception, and
\* every text it had handed to translate_text before the failing one, when
\* eligible and between different languages, has its entry in the cache
FormatCallFailed ==
    (mode \in FormatModes /\ error = "provider")
    => /\ pc = "raised"
       /\ sent # <<>>
       /\ \A i \in 1..(Len(sent) - 1) :
             (/\ IsTranslatableText(sent[i], MinLength)
              /\ NormalizeLanguageTag(src) # NormalizeLanguageTag(tgt))
             => Strip(sent[i]) \in DOMAIN cache

\* the step in which the provider raises writes nothing to the cache, no step of
\* a format translator removes or empties an entry, and a format translator that
\* was left by an exception takes no further step (it returns nothing)
FailureStep ==
    /\ (error' = "provider" /\ error # "provider") => (cache' = cache /\ pc' = "raised")
    /\ mode \in FormatModes
         => /\ pc # "raised"
            /\ DOMAIN cache \subseteq DOMAIN cache'

\* C11: when the provider fails during a translate_text call that missed the
\* cache, the failure reaches the caller, the provider was invoked exactly once
\* in that call and the cache is as it was before the call; in a format
\* translator the entries written for earlier fragments stay in the cache and the
\* translator returns no output.
ProviderFailurePropagates ==
    /\ [](TextCallFailed /\ FormatCallFailed)
    /\ [][FailureStep]_vars

\* translate_rss_feed was left by the provider's exception at an item's
\* description after the item's title had been translated and cached
ProviderFailurePropagatesWitness ==
    /\ mode = "rss" /\ pc = "raised" /\ error = "provider"
    /\ Len(sent) = 2 /\ sent[1] = TextB /\ sent[2] = TextA
    /\ Strip(TextB) \in DOMAIN cache
    /\ Strip(TextA) \notin DOMAIN cache

-----------------------------------------------------------------------------
(* __init__.py: translate_directory and translate_file. A path is the sequence *)
(* of its components. The translation of a file's content is left opaque here: *)
(* translate_file writes it, or the translator raises and the walk ends.        *)

InputDir == <<"in">>

OutputDir == <<"out">>

DirNames == {"a", "b"}

FileNames == {"x.html", "n.txt"}

\* input_file_path.suffix, after the two file names that are looked up first
ExtOf(name) ==
    IF name = "manifest.json" THEN ".webmanifest"
    ELSE IF name = "feed.xml" THEN ".rss"
    ELSE IF name = "x.html" THEN ".html"
    ELSE ".txt"

\* the keys of _TRANSLATE_BY_EXT
TranslatedExts == {".html", ".rss", ".webmanifest"}

\* every file path at most MaxDepth directories below input_dir
AllFiles ==
    {InputDir \o d \o <<f>> : d \in SeqsUpTo(DirNames, MaxDepth), f \in FileNames}

IsPrefix(p, q) == Len(p) <= Len(q) /\ SubSeq(q, 1, Len(p)) = p

\* Path.is_relative_to
IsRelativeTo(path, other) == IsPrefix(other, path)

\* Path.relative_to, for a path that is below other
RelativeTo(path, other) == SubSeq(path, Len(other) + 1, Len(path))

\* the directory a file is in
DirOf(path) == SubSeq(path, 1, Len(path) - 1)

\* the directories directly below d that os.walk descends into
SubDirs(d) ==
    {SubSeq(f, 1, Len(d) + 1) : f \in {g \in files : IsPrefix(d, g) /\ Len(g) > Len(d) + 1}}

\* every order in which a set of at most MaxFiles directories can be listed
Orders(S) ==
    {o \in [1..Cardinality(S) -> S] : \A i, j \in 1..Cardinality(S) : i # j => o[i] # o[j]}

\* line 120: output_dir / input_file_path.relative_to(root), root being the
\* directory os.walk is in
OutputPath(input_file_path, walk_root) ==
    OutputDir \o RelativeTo(input_file_path, walk_root)

InitDir ==
    /\ mode = "dir" /\ pc = "walk"
    /\ files \in {F \in SUBSET AllFiles : Cardinality(F) <= MaxFiles}
    /\ exclude_paths \in { {}, {InputDir \o <<"a">>}, {InputDir \o <<"x.html">>}, {<<"a">>} }
    /\ walk = <<InputDir>> /\ root = <<>> /\ pending = {}
    /\ handed = {} /\ written = <<>>
    /\ error = ""
    /\ NoTag /\ NoText /\ NoLang /\ NoHtml
    /\ doc = <<>> /\ doc0 = <<>> /\ idx = 0 /\ sent = <<>>

\* line 112: os.walk yields the next directory, top-down, its subdirectories next
WalkYield(order) ==
    /\ mode = "dir" /\ pc = "walk" /\ pending = {} /\ walk # <<>>
    /\ order \in Orders(SubDirs(Head(walk)))
    /\ root' = Head(walk)
    /\ pending' = {f \in files : DirOf(f) = Head(walk)}
    /\ walk' = order \o Tail(walk)
    /\ UNCHANGED <<mode, pc, files, exclude_paths, handed, written, error,
                   tagVars, textVars, langVars, htmlVars, doc, doc0, idx, sent>>

Excluded(input_file_path) ==
    \E exclude_path \in exclude_paths : IsRelativeTo(input_file_path, exclude_path)

\* lines 115-119: a file under an excluded path is passed over
DirFileExcluded(f) ==
    /\ mode = "dir" /\ pc = "walk" /\ f \in pending
    /\ Excluded(f)
    /\ pending' = pending \ {f}
    /\ UNCHANGED <<mode, pc, files, exclude_paths, walk, root, handed, written, error,
                   tagVars, textVars, langVars, htmlVars, doc, doc0, idx, sent>>

\* lines 120-127 and translate_file lines 55-62: no translator for the extension
DirFileUnsupported(f) ==
    /\ mode = "dir" /\ pc = "walk" /\ f \in pending
    /\ ~Excluded(f)
    /\ ExtOf(f[Len(f)]) \notin TranslatedExts
    /\ handed' = handed \cup {<<f, OutputPath(f, root)>>}
    /\ pending' = pending \ {f}
    /\ UNCHANGED <<mode, pc, files, exclude_paths, walk, root, written, error,
                   tagVars, textVars, langVars, htmlVars, doc, doc0, idx, sent>>

\* lines 120-127 and translate_file lines 55-68: translated and written
DirFileTranslated(f) ==
    /\ mode = "dir" /\ pc = "walk" /\ f \in pending
    /\ ~Excluded(f)
    /\ ExtOf(f[Len(f)]) \in TranslatedExts
    /\ handed' = handed \cup {<<f, OutputPath(f, root)>>}
    /\ written' = CachePut(written, OutputPath(f, root), f)
    /\ pending' = pending \ {f}
    /\ UNCHANGED <<mode, pc, files, exclude_paths, walk, root, error,
                   tagVars, textVars, langVars, htmlVars, doc, doc0, idx, sent>>

\* lines 120-127 and translate_file line 66: the translator raises
DirFileRaises(f) ==
    /\ mode = "dir" /\ pc = "walk" /\ f \in pending
    /\ ~Excluded(f)
    /\ ExtOf(f[Len(f)]) \in TranslatedExts
    /\ handed' = handed \cup {<<f, OutputPath(f, root)>>}
    /\ error' = "translate" /\ pc' = "raised"
    /\ UNCHANGED <<mode, files, exclude_paths, walk, root, pending, written,
                   tagVars, textVars, langVars, htmlVars, doc, doc0, idx, sent>>

\* os.walk is exhausted
DirReturn ==
    /\ mode = "dir" /\ pc = "walk" /\ pending = {} /\ walk = <<>>
    /\ pc' = "returned"
    /\ UNCHANGED <<mode, files, exclude_paths, walk, root, pending, handed, written, error,
                   tagVars, textVars, langVars, htmlVars, doc, doc0, idx, sent>>

NextDir ==
    \/ \E order \in SeqsUpTo({InputDir \o <<d>> : d \in DirNames}, MaxFiles) : WalkYield(order)
    \/ \E f \in AllFiles : DirFileExcluded(f)
    \/ \E f \in AllFiles : DirFileUnsupported(f)
    \/ \E f \in AllFiles : DirFileTranslated(f)
    \/ \E f \in AllFiles : DirFileRaises(f)
    \/ DirReturn

SpecDir == InitDir /\ [][NextDir]_vars

\* C10: every file handed to translate_file goes to output_dir joined with its path
\* relative to input_dir, so no two input files are given the same output path.
MirrorsRelativePaths ==
    /\ \A h \in handed : h[2] = OutputDir \o RelativeTo(h[1], InputDir)
    /\ \A h, k \in handed : h[1] # k[1] => h[2] # k[2]

====
